---- MODULE Spec2Model ----
(***************************************************************************)
(* A model of package jsn (src/jsn/jsn.go): the Json navigator, a pair     *)
(* (data, exists) over the values encoding/json decodes into interface{}.  *)
(*                                                                         *)
(* Go values are modelled as records [tag, v].  Scalars are held inline;   *)
(* maps and slices are reference types in Go, so a map or slice value is a *)
(* reference [doc, path] into `store`, the heap of decoded documents.  Two *)
(* navigators that share a map in Go share a store slot here.              *)
(***************************************************************************)
EXTENDS Integers, Sequences, FiniteSets, TLC

VARIABLES
    store,  \* heap: slot -> decoded document tree, or Free
    p,      \* a Json variable of the caller (target of NewJson / UnmarshalJSON / Scan)
    c,      \* a second Json variable: a navigator the caller kept earlier
    res     \* the last call: [op, recv, arg, out]

vars == <<store, p, c, res>>

---------------------------------------------------------------------------
(* Bounds of the model *)

NumSlots == 3     \* heap slots available to decoded documents
MaxIndex == 2     \* indexes tried by I() range over -1..MaxIndex
Int64Bits == 4    \* width standing for the 64 bits of int64
Unit == 10        \* fixed point: the float64 x is modelled by the integer x * Unit

Slots == 1..NumSlots
Keys == {"a", "b"}
Indexes == (0 - 1)..MaxIndex
Archs == {"amd64", "arm64", "386"}

---------------------------------------------------------------------------
(* Go values held in an interface{} *)

Nil == [tag |-> "nil", v |-> 0]                 \* nil interface: JSON null
BoolV(b) == [tag |-> "bool", v |-> b]
StringV(s) == [tag |-> "string", v |-> s]
Float64V(f) == [tag |-> "float64", v |-> f]
NumberV(lit) == [tag |-> "Number", v |-> lit]   \* json.Number
MapV(m) == [tag |-> "map", v |-> m]             \* map[string]interface{}
SliceV(a) == [tag |-> "slice", v |-> a]         \* []interface{}
PanicV == [tag |-> "panic", v |-> 0]            \* outcome of a run-time panic
Free == [tag |-> "free", v |-> 0]               \* unallocated heap slot

DataTags == {"nil", "bool", "string", "float64", "Number", "map", "slice"}

IsContainer(d) == d.tag \in {"map", "slice"}

\* a nil map / nil slice
NilRef == [doc |-> 0, path |-> <<>>]
Ref(d, path) == [doc |-> d, path |-> path]
KeyStep(k) == [key |-> k, idx |-> 0 - 1]
IdxStep(i) == [key |-> "", idx |-> i]

\* type Json struct { data interface{}; exists bool }
MkJson(d, e) == [data |-> d, exists |-> e]
JsonZero == MkJson(Nil, FALSE)                  \* Json{}

---------------------------------------------------------------------------
(* Documents: the trees the decoder produces for well-formed JSON text *)

F21 == Float64V(2 * Unit + 1)                   \* 2.1

Docs ==
    { Nil,
      SliceV(<<>>),
      MapV([a |-> Nil, b |-> SliceV(<<MapV([a |-> F21]), Nil>>)]),
      SliceV(<<StringV("x"), MapV([b |-> BoolV(TRUE)])>>) }

\* JSON text.  ok: the text starts with a well-formed JSON value, val;
\* rest: other data than white space follows that value
Text(t) == [ok |-> TRUE, val |-> t, rest |-> FALSE]          \* `[]`
Trailing(t) == [ok |-> TRUE, val |-> t, rest |-> TRUE]       \* `[] x`
Malformed == [ok |-> FALSE, val |-> Nil, rest |-> FALSE]     \* `{broken: }`
Texts == {Text(t) : t \in Docs} \cup {Trailing(SliceV(<<>>)), Malformed}

\* the text is one JSON value and nothing else
WellFormed(text) == text.ok /\ ~text.rest

\* sources handed to NewJson and Scan: text as []byte, string or io.Reader,
\* or an in-memory value, given by the text json.Marshal encodes it to
\* (Malformed for a value json.Marshal rejects)
Src(kind, text) == [kind |-> kind, text |-> text]
Srcs == {Src("bytes", t) : t \in Texts}
        \cup {Src(k, t) : k \in {"string", "reader"},
                          t \in {Text(Nil), Trailing(SliceV(<<>>)), Malformed}}
        \cup {Src("value", t) : t \in {Text(Nil), Malformed}}

---------------------------------------------------------------------------
(* The heap *)

RECURSIVE TreeAt(_, _)
TreeAt(t, path) ==
    IF path = <<>> THEN t
    ELSE LET s == Head(path) IN
         IF s.idx >= 0
         THEN IF t.tag = "slice" /\ s.idx + 1 \in DOMAIN t.v
              THEN TreeAt(t.v[s.idx + 1], Tail(path)) ELSE Free
         ELSE IF t.tag = "map" /\ s.key \in DOMAIN t.v
              THEN TreeAt(t.v[s.key], Tail(path)) ELSE Free

\* the map or slice a reference points to
Deref(r) == IF r.doc \in Slots THEN TreeAt(store[r.doc], r.path) ELSE Free

\* the interface{} value holding tree t found at (d, path)
Wrap(d, path, t) == IF IsContainer(t) THEN [tag |-> t.tag, v |-> Ref(d, path)] ELSE t

\* the tree an interface{} value denotes
DeepTree(d) == IF IsContainer(d) THEN Deref(d.v) ELSE d

\* _, exists := m[key]
MapHas(m, key) == LET t == Deref(m) IN t.tag = "map" /\ key \in DOMAIN t.v
\* v := m[key]   (nil for a missing key)
MapAt(m, key) ==
    IF MapHas(m, key) THEN Wrap(m.doc, Append(m.path, KeyStep(key)), Deref(m).v[key]) ELSE Nil
MapKeys(m) == LET t == Deref(m) IN IF t.tag = "map" THEN DOMAIN t.v ELSE {}

\* len(a)
SliceLen(a) == LET t == Deref(a) IN IF t.tag = "slice" THEN Len(t.v) ELSE 0
\* a[i]: the run time panics on an index out of range
SliceAt(a, i) ==
    IF i >= 0 /\ i < SliceLen(a)
    THEN Wrap(a.doc, Append(a.path, IdxStep(i)), Deref(a).v[i + 1])
    ELSE PanicV

DocOf(j) == IF IsContainer(j.data) THEN {j.data.v.doc} ELSE {}
LiveSlots(navs) == UNION {DocOf(j) : j \in navs}
\* slots no navigator refers to are garbage
Collect(st, navs) == [d \in Slots |-> IF d \in LiveSlots(navs) THEN st[d] ELSE Free]
\* a slot for a newly decoded document
NewSlot == CHOOSE d \in Slots \ LiveSlots({p, c}) :
               \A e \in Slots \ LiveSlots({p, c}) : d <= e

---------------------------------------------------------------------------
(* encoding/json at the boundary *)

\* JsonUnmarshal decoding into the map or slice the target already holds
JsonUnmarshal_InPlace(text, target) ==
    IF ~WellFormed(text) THEN [err |-> "SyntaxError", v |-> target, st |-> store]
    ELSE LET d == IF IsContainer(target) THEN target.v.doc ELSE NewSlot IN
         [err |-> "nil",
          v |-> Wrap(d, <<>>, text.val),
          st |-> IF IsContainer(text.val) THEN [store EXCEPT ![d] = text.val]
                 ELSE store]

\* json.Unmarshal(bytes, &target) with target an interface{}: the input is
\* validated first, malformed input leaves the target untouched; otherwise
\* the target is set to a newly allocated value
JsonUnmarshal(text, target) ==
    IF ~WellFormed(text) THEN [err |-> "SyntaxError", v |-> target, st |-> store]
    ELSE [err |-> "nil",
          v |-> Wrap(NewSlot, <<>>, text.val),
          st |-> IF IsContainer(text.val) THEN [store EXCEPT ![NewSlot] = text.val]
                 ELSE store]

\* json.NewDecoder(r).Decode(&target): decodes the first JSON value of the
\* stream and does not look at what follows it
DecoderDecode(text, target) ==
    IF ~text.ok THEN [err |-> "SyntaxError", v |-> target, st |-> store]
    ELSE JsonUnmarshal(Text(text.val), target)

\* json.Marshal(data) of a decoded value
JsonMarshal(d) == Text(DeepTree(d))

---------------------------------------------------------------------------
(* Numbers.  int64 is modelled Int64Bits wide; int is as wide on amd64 and *)
(* arm64 and half as wide on 386.  A float64 x is the integer x * Unit.    *)

MaxInt64 == 2 ^ (Int64Bits - 1) - 1
MinInt64 == 0 - 2 ^ (Int64Bits - 1)
MaxFloat64 == 4 * (MaxInt64 + 1) * Unit
PosInf == MaxFloat64 + 1
NegInf == 0 - PosInf

\* a JSON number literal held by a json.Number: its syntax and its value
Lit(syntax, val) == [syntax |-> syntax, val |-> val]

\* strconv.ParseInt(s, 10, 64), called by json.Number.Int64: text that is
\* not an optionally signed run of digits is a syntax error with value 0, a
\* value out of range is a range error with the nearest bound as value
ParseInt(lit) ==
    IF lit.syntax # "integer" THEN [v |-> 0, err |-> "ErrSyntax"]
    ELSE IF lit.val > MaxInt64 * Unit THEN [v |-> MaxInt64, err |-> "ErrRange"]
    ELSE IF lit.val < MinInt64 * Unit THEN [v |-> MinInt64, err |-> "ErrRange"]
    ELSE [v |-> lit.val \div Unit, err |-> "nil"]

\* strconv.ParseFloat(s, 64), called by json.Number.Float64: a value out of
\* range is a range error with an infinity as value
ParseFloat(lit) ==
    IF lit.val > MaxFloat64 THEN [v |-> PosInf, err |-> "ErrRange"]
    ELSE IF lit.val < 0 - MaxFloat64 THEN [v |-> NegInf, err |-> "ErrRange"]
    ELSE [v |-> lit.val, err |-> "nil"]

\* int64(f): truncation toward zero; for a value out of range the result
\* depends on the implementation (arm64 saturates, x86 gives the minimum)
FloatToInt64(f, arch) ==
    LET t == IF f >= 0 THEN f \div Unit ELSE 0 - ((0 - f) \div Unit) IN
    IF t >= MinInt64 /\ t <= MaxInt64 THEN t
    ELSE IF arch = "arm64" /\ t > 0 THEN MaxInt64
    ELSE MinInt64

IntBits(arch) == IF arch = "386" THEN Int64Bits \div 2 ELSE Int64Bits
\* int(v): the low bits of v
ToInt(v, arch) ==
    LET m == 2 ^ IntBits(arch) IN ((v + m \div 2) % m) - m \div 2

---------------------------------------------------------------------------
(* jsn.go *)

NewJson(src) ==
    LET r == CASE src.kind \in {"bytes", "string"} -> JsonUnmarshal(src.text, Nil)
               [] src.kind = "reader" -> DecoderDecode(src.text, Nil)
               [] OTHER ->
                    IF ~src.text.ok
                    THEN [err |-> "MarshalError", v |-> Nil, st |-> store]
                    ELSE JsonUnmarshal(src.text, Nil)
    IN [js |-> IF r.err = "nil" THEN MkJson(r.v, TRUE) ELSE JsonZero,
        err |-> r.err, st |-> r.st]

\* asMap without the test of exists
asMap_NoExists(j) ==
    IF j.data.tag = "map" THEN [m |-> j.data.v, ok |-> TRUE]
    ELSE [m |-> NilRef, ok |-> FALSE]

asMap(j) ==
    IF ~j.exists THEN [m |-> NilRef, ok |-> FALSE]
    ELSE IF j.data.tag = "map" THEN [m |-> j.data.v, ok |-> TRUE]
    ELSE [m |-> NilRef, ok |-> FALSE]

asArray(j) ==
    IF ~j.exists THEN [a |-> NilRef, ok |-> FALSE]
    ELSE IF j.data.tag = "slice" THEN [a |-> j.data.v, ok |-> TRUE]
    ELSE [a |-> NilRef, ok |-> FALSE]

Exists(j, key) ==
    LET r == asMap(j) IN
    IF ~r.ok THEN FALSE ELSE MapHas(r.m, key)

\* Get taking a null value for a missing key
Get_NullIsMissing(j, key) ==
    LET r == asMap(j) IN
    IF ~r.ok THEN JsonZero
    ELSE MkJson(MapAt(r.m, key), MapAt(r.m, key) # Nil)

Get(j, key) ==
    LET r == asMap(j) IN
    IF ~r.ok THEN JsonZero
    ELSE MkJson(MapAt(r.m, key), MapHas(r.m, key))

K(j, key) == Get(j, key)

\* I with the upper bound off by one
I_OffByOne(j, index) ==
    LET r == asArray(j) IN
    IF ~r.ok THEN JsonZero
    ELSE IF index < 0 \/ index > SliceLen(r.a) THEN JsonZero
    ELSE MkJson(SliceAt(r.a, index), TRUE)

I(j, index) ==
    LET r == asArray(j) IN
    IF ~r.ok THEN JsonZero
    ELSE IF index < 0 \/ index > SliceLen(r.a) - 1 THEN JsonZero
    ELSE MkJson(SliceAt(r.a, index), TRUE)

Undefined(j) == ~j.exists

Null(j) == j.exists /\ j.data = Nil

NullOrUndefined(j) == j.data = Nil

\* IterMap's loop `for k, v := range m`, over the remaining keys in the
\* order the run time yields them; f[k] is what the visitor returns for k
RECURSIVE RangeLoop(_, _, _, _, _)
RangeLoop(m, order, f, count, calls) ==
    IF order = <<>> THEN [count |-> count, calls |-> calls]
    ELSE LET k == Head(order)
             call == [key |-> k, value |-> MkJson(MapAt(m, k), TRUE)] IN
         IF ~f[k] THEN [count |-> count + 1, calls |-> Append(calls, call)]
         ELSE RangeLoop(m, Tail(order), f, count + 1, Append(calls, call))

\* IterMap counting only the calls that returned true
IterMap_CountTrue(j, order, f) ==
    LET r == asMap(j)
        out == RangeLoop(r.m, order, f, 0, <<>>) IN
    IF ~r.ok THEN [count |-> 0, calls |-> <<>>]
    ELSE [count |-> Cardinality({x \in DOMAIN out.calls : f[out.calls[x].key]}),
          calls |-> out.calls]

IterMap(j, order, f) ==
    LET r == asMap(j) IN
    IF ~r.ok THEN [count |-> 0, calls |-> <<>>]
    ELSE RangeLoop(r.m, order, f, 0, <<>>)

StringZero == [Value |-> "", IsValid |-> FALSE]
Int64Zero == [Value |-> 0, IsValid |-> FALSE]
Float64Zero == [Value |-> 0, IsValid |-> FALSE]
BoolZero == [Value |-> FALSE, IsValid |-> FALSE]

String(j) ==
    IF ~j.exists THEN StringZero
    ELSE IF j.data.tag = "string" THEN [Value |-> j.data.v, IsValid |-> TRUE]
    ELSE StringZero

Int64(j, arch) ==
    IF ~j.exists THEN Int64Zero
    ELSE CASE j.data.tag = "float64" ->
                [Value |-> FloatToInt64(j.data.v, arch), IsValid |-> TRUE]
           [] j.data.tag = "Number" ->
                LET r == ParseInt(j.data.v) IN [Value |-> r.v, IsValid |-> r.err = "nil"]
           [] OTHER -> Int64Zero

\* Json.Int (Int names the set of integers)
JsonInt(j, arch) ==
    LET v == Int64(j, arch) IN
    [Value |-> ToInt(v.Value, arch), IsValid |-> v.IsValid]

\* Float64 dropping the error of the conversion
Float64_IgnoreErr(j) ==
    IF ~j.exists THEN Float64Zero
    ELSE CASE j.data.tag = "float64" -> [Value |-> j.data.v, IsValid |-> TRUE]
           [] j.data.tag = "Number" ->
                LET r == ParseFloat(j.data.v) IN [Value |-> r.v, IsValid |-> TRUE]
           [] OTHER -> Float64Zero

Float64(j) ==
    IF ~j.exists THEN Float64Zero
    ELSE CASE j.data.tag = "float64" -> [Value |-> j.data.v, IsValid |-> TRUE]
           [] j.data.tag = "Number" ->
                LET r == ParseFloat(j.data.v) IN [Value |-> r.v, IsValid |-> r.err = "nil"]
           [] OTHER -> Float64Zero

Bool(j) ==
    IF ~j.exists THEN BoolZero
    ELSE IF j.data.tag = "bool" THEN [Value |-> j.data.v, IsValid |-> TRUE]
    ELSE BoolZero

\* type Array struct { elements []interface{}; IsValid bool }
Array(j) ==
    LET r == asArray(j) IN [elements |-> r.a, IsValid |-> r.ok]

\* a []Json: nil, or a slice of the items
EmptyJsons == [nil |-> FALSE, items |-> <<>>]
NilJsons == [nil |-> TRUE, items |-> <<>>]

\* Elements handing out the nil slice of an invalid view
Elements_NilWhenInvalid(a) ==
    IF ~a.IsValid \/ a.elements = NilRef THEN NilJsons
    ELSE [nil |-> FALSE,
          items |-> [i \in 1..SliceLen(a.elements) |->
                        MkJson(SliceAt(a.elements, i - 1), TRUE)]]

Elements(a) ==
    IF ~a.IsValid \/ a.elements = NilRef THEN EmptyJsons
    ELSE [nil |-> FALSE,
          items |-> [i \in 1..SliceLen(a.elements) |->
                        MkJson(SliceAt(a.elements, i - 1), TRUE)]]

Raw(j) == j.data

MarshalJSON(j) == IF j.exists THEN JsonMarshal(j.data) ELSE JsonMarshal(Nil)

Stringify(j) == MarshalJSON(j)

\* j.Unmarshal(&target) with target an interface{} of the caller: the value
\* is encoded and decoded again into the target
Unmarshal(j) ==
    LET data == IF j.exists THEN j.data ELSE Nil
        bytes == JsonMarshal(data) IN
    [err |-> "nil", target |-> bytes.val]

UnmarshalJSON(j, text) ==
    LET r == JsonUnmarshal(text, j.data) IN
    [j |-> MkJson(r.v, r.err = "nil"), err |-> r.err, st |-> r.st]

Scan(j, src) ==
    IF src.kind = "bytes" THEN UnmarshalJSON(j, src.text)
    ELSE [j |-> j, err |-> "unsupprted src type", st |-> store]

---------------------------------------------------------------------------
(* The caller: one action per call *)

NoRes == [op |-> "none", recv |-> JsonZero, arg |-> 0, out |-> 0]
Call(op, recv, arg, out) == [op |-> op, recv |-> recv, arg |-> arg, out |-> out]

Init ==
    /\ store = [d \in Slots |-> Free]
    /\ p = JsonZero
    /\ c = JsonZero
    /\ res = NoRes

\* p, err = NewJson(src)
NewJsonOp ==
    \E src \in Srcs :
        LET r == NewJson(src) IN
        /\ p' = r.js
        /\ store' = Collect(r.st, {r.js, c})
        /\ res' = Call("NewJson", JsonZero, src, [js |-> r.js, err |-> r.err])
        /\ UNCHANGED c

\* err = p.UnmarshalJSON(data)
UnmarshalJSONOp ==
    \E text \in Texts :
        LET r == UnmarshalJSON(p, text) IN
        /\ p' = r.j
        /\ store' = Collect(r.st, {r.j, c})
        /\ res' = Call("UnmarshalJSON", JsonZero, text, r.err)
        /\ UNCHANGED c

\* err = p.Scan(src)
ScanOp ==
    \E src \in Srcs :
        LET r == Scan(p, src) IN
        /\ p' = r.j
        /\ store' = Collect(r.st, {r.j, c})
        /\ res' = Call("Scan", JsonZero, src, r.err)
        /\ UNCHANGED c

\* err = json.Unmarshal(data, &p): encoding/json validates the input and
\* calls p.UnmarshalJSON only for well-formed input
StdUnmarshalOp ==
    \E text \in Texts :
        LET r == IF WellFormed(text) THEN UnmarshalJSON(p, text)
                 ELSE [j |-> p, err |-> "SyntaxError", st |-> store] IN
        /\ p' = r.j
        /\ store' = Collect(r.st, {r.j, c})
        /\ res' = Call("json.Unmarshal", JsonZero, text, r.err)
        /\ UNCHANGED c

\* c = p
CopyOp ==
    /\ c' = p
    /\ store' = Collect(store, {p})
    /\ res' = Call("copy", p, 0, 0)
    /\ UNCHANGED p

\* the navigators the last call returned
Returned ==
    CASE res.op \in {"Get", "K", "I"} -> {res.out}
      [] res.op = "Elements" -> {res.out.items[i] : i \in DOMAIN res.out.items}
      [] res.op = "IterMap" -> {res.out.calls[i].value : i \in DOMAIN res.out.calls}
      [] OTHER -> {}

\* c = <a navigator the last call returned>
KeepOp ==
    \E j \in Returned :
        /\ c' = j
        /\ store' = Collect(store, {p, j})
        /\ res' = Call("keep", j, 0, 0)
        /\ UNCHANGED p

GetOp(j) ==
    \E key \in Keys :
        /\ res' = Call("Get", j, key, Get(j, key))
        /\ UNCHANGED <<store, p, c>>

KOp(j) ==
    \E key \in Keys :
        /\ res' = Call("K", j, key, K(j, key))
        /\ UNCHANGED <<store, p, c>>

IOp(j) ==
    \E index \in Indexes :
        /\ res' = Call("I", j, index, I(j, index))
        /\ UNCHANGED <<store, p, c>>

ExistsOp(j) ==
    \E key \in Keys :
        /\ res' = Call("Exists", j, key, Exists(j, key))
        /\ UNCHANGED <<store, p, c>>

UndefinedOp(j) ==
    /\ res' = Call("Undefined", j, 0, Undefined(j))
    /\ UNCHANGED <<store, p, c>>

NullOp(j) ==
    /\ res' = Call("Null", j, 0, Null(j))
    /\ UNCHANGED <<store, p, c>>

NullOrUndefinedOp(j) ==
    /\ res' = Call("NullOrUndefined", j, 0, NullOrUndefined(j))
    /\ UNCHANGED <<store, p, c>>

\* the orders in which the run time may yield the keys of j's map
Orders(j) ==
    LET ks == IF j.data.tag = "map" THEN MapKeys(j.data.v) ELSE {} IN
    {o \in [1..Cardinality(ks) -> ks] : \A x, y \in DOMAIN o : x # y => o[x] # o[y]}

IterMapOp(j) ==
    \E order \in Orders(j), f \in [Keys -> BOOLEAN] :
        /\ res' = Call("IterMap", j, f, IterMap(j, order, f))
        /\ UNCHANGED <<store, p, c>>

StringOp(j) ==
    /\ res' = Call("String", j, 0, String(j))
    /\ UNCHANGED <<store, p, c>>

Int64Op(j) ==
    \E arch \in Archs :
        /\ res' = Call("Int64", j, arch, Int64(j, arch))
        /\ UNCHANGED <<store, p, c>>

IntOp(j) ==
    \E arch \in Archs :
        /\ res' = Call("Int", j, arch, JsonInt(j, arch))
        /\ UNCHANGED <<store, p, c>>

Float64Op(j) ==
    /\ res' = Call("Float64", j, 0, Float64(j))
    /\ UNCHANGED <<store, p, c>>

BoolOp(j) ==
    /\ res' = Call("Bool", j, 0, Bool(j))
    /\ UNCHANGED <<store, p, c>>

ArrayOp(j) ==
    /\ res' = Call("Array", j, 0, Array(j))
    /\ UNCHANGED <<store, p, c>>

\* j.Array().Elements()
ElementsOp(j) ==
    /\ res' = Call("Elements", j, Array(j), Elements(Array(j)))
    /\ UNCHANGED <<store, p, c>>

RawOp(j) ==
    /\ res' = Call("Raw", j, 0, Raw(j))
    /\ UNCHANGED <<store, p, c>>

StringifyOp(j) ==
    /\ res' = Call("Stringify", j, 0, Stringify(j))
    /\ UNCHANGED <<store, p, c>>

UnmarshalOp(j) ==
    /\ res' = Call("Unmarshal", j, 0, Unmarshal(j))
    /\ UNCHANGED <<store, p, c>>

Next ==
    \/ NewJsonOp
    \/ UnmarshalJSONOp
    \/ ScanOp
    \/ StdUnmarshalOp
    \/ CopyOp
    \/ KeepOp
    \/ \E j \in {p, c} : GetOp(j)
    \/ \E j \in {p, c} : KOp(j)
    \/ \E j \in {p, c} : IOp(j)
    \/ \E j \in {p, c} : ExistsOp(j)
    \/ \E j \in {p, c} : UndefinedOp(j)
    \/ \E j \in {p, c} : NullOp(j)
    \/ \E j \in {p, c} : NullOrUndefinedOp(j)
    \/ \E j \in {p, c} : IterMapOp(j)
    \/ \E j \in {p, c} : StringOp(j)
    \/ \E j \in {p, c} : Int64Op(j)
    \/ \E j \in {p, c} : IntOp(j)
    \/ \E j \in {p, c} : Float64Op(j)
    \/ \E j \in {p, c} : BoolOp(j)
    \/ \E j \in {p, c} : ArrayOp(j)
    \/ \E j \in {p, c} : ElementsOp(j)
    \/ \E j \in {p, c} : RawOp(j)
    \/ \E j \in {p, c} : StringifyOp(j)
    \/ \E j \in {p, c} : UnmarshalOp(j)

Spec == Init /\ [][Next]_vars

---------------------------------------------------------------------------
(* The typed getters over every representation of the data, json.Number    *)
(* included: c ranges over the navigators, the getters are applied to it   *)

\* number literals: 0, 2, -3, 2.1, 2.0, 1e0, the bounds of int64, the
\* integers next to them, and values beyond the range of float64
Lits ==
    { Lit("integer", 0), Lit("integer", 2 * Unit), Lit("integer", 0 - 3 * Unit),
      Lit("fraction", 2 * Unit + 1), Lit("fraction", 2 * Unit), Lit("exponent", Unit),
      Lit("integer", MaxInt64 * Unit), Lit("integer", (MaxInt64 + 1) * Unit),
      Lit("integer", MinInt64 * Unit), Lit("integer", (MinInt64 - 1) * Unit),
      Lit("exponent", 2 * MaxFloat64), Lit("exponent", 0 - 2 * MaxFloat64) }

GetterStore ==
    [d \in Slots |-> IF d = 1 THEN MapV([a |-> SliceV(<<Nil>>)]) ELSE Free]

GetterData ==
    { Nil, BoolV(TRUE), BoolV(FALSE), StringV(""), StringV("x"), StringV("123"),
      Float64V(0), F21, Float64V(0 - (2 * Unit + 1)),
      Float64V((MaxInt64 + 1) * Unit), Float64V((MinInt64 - 1) * Unit),
      [tag |-> "map", v |-> Ref(1, <<>>)],
      [tag |-> "slice", v |-> Ref(1, <<KeyStep("a")>>)] }
    \cup {NumberV(l) : l \in Lits}

GetterInit ==
    /\ store = GetterStore
    /\ p = JsonZero
    /\ c \in {MkJson(d, e) : d \in GetterData, e \in BOOLEAN}
    /\ res = NoRes

GetterNext ==
    \/ StringOp(c)
    \/ Int64Op(c)
    \/ IntOp(c)
    \/ Float64Op(c)
    \/ BoolOp(c)

GetterSpec == GetterInit /\ [][GetterNext]_vars

---------------------------------------------------------------------------
(* What a navigator shows *)

\* the tree under j, for a present j
TreeOf(j) == DeepTree(j.data)
\* everything the methods of j can observe
Obs(j) == [exists |-> j.exists, tree |-> DeepTree(j.data)]

IsJson(j) ==
    /\ j.exists \in BOOLEAN
    /\ j.data.tag \in DataTags
    /\ IsContainer(j.data) => Deref(j.data.v).tag = j.data.tag

IsMapNav(j) == j.exists /\ j.data.tag = "map"
IsArrayNav(j) == j.exists /\ j.data.tag = "slice"

---------------------------------------------------------------------------
(* Claims *)

NavOps == {"Get", "K", "I"}
ReadOps == {"Get", "K", "I", "Exists", "Undefined", "Null", "NullOrUndefined", "IterMap",
            "String", "Int64", "Int", "Float64", "Bool", "Array", "Elements", "Raw",
            "Stringify", "Unmarshal"}

\* C1: every Get / K / I step, on any receiver and with any key or index,
\* returns a well-defined Json and does not panic; a step taken from an
\* absent navigator returns the absent navigator Json{}, and so does every
\* step taken from that result.
C1_ChainNeverFails ==
    res.op \in NavOps =>
        /\ IsJson(res.out)
        /\ Undefined(res.recv) => res.out = JsonZero
        /\ \A key \in Keys, index \in Indexes :
              /\ IsJson(Get(res.out, key)) /\ IsJson(I(res.out, index))
              /\ Undefined(res.out) =>
                    Get(res.out, key) = JsonZero /\ I(res.out, index) = JsonZero

\* an absent receiver that still holds a map with the key asked for
C1_Witness ==
    /\ res.op = "Get"
    /\ Undefined(res.recv)
    /\ res.recv.data.tag = "map"
    /\ res.arg \in MapKeys(res.recv.data.v)
    /\ res.out = JsonZero

\* C2: for every Json value the caller holds or was handed, Undefined() is
\* true iff the value is absent, Null() is true iff it is present and holds
\* JSON null, the two are never both true, and NullOrUndefined() equals
\* Null() || Undefined().
C2_NullUndefined ==
    \A j \in {p, c} \cup Returned :
        /\ Undefined(j) <=> ~j.exists
        /\ Null(j) <=> (j.exists /\ TreeOf(j) = Nil)
        /\ ~(Null(j) /\ Undefined(j))
        /\ NullOrUndefined(j) <=> (Null(j) \/ Undefined(j))

\* the map j has an entry for key
HasEntry(j, key) == IsMapNav(j) /\ key \in DOMAIN TreeOf(j).v

\* C3: Get(k) is an existing navigator over the entry's value exactly when
\* the receiver exists, is a map and has the key (a null value included),
\* and is Json{} otherwise; Exists(k) is true in exactly those cases.
C3_GetExists ==
    /\ res.op \in {"Get", "K"} =>
          IF HasEntry(res.recv, res.arg)
          THEN res.out.exists /\ TreeOf(res.out) = TreeOf(res.recv).v[res.arg]
          ELSE res.out = JsonZero
    /\ res.op = "Exists" =>
          /\ res.out <=> HasEntry(res.recv, res.arg)
          /\ res.out <=> Get(res.recv, res.arg).exists

\* Get of a key whose value is JSON null
C3_Witness ==
    /\ res.op = "Get"
    /\ HasEntry(res.recv, res.arg)
    /\ TreeOf(res.recv).v[res.arg] = Nil
    /\ res.out = MkJson(Nil, TRUE)

\* C4: a typed getter whose result has IsValid false has the zero value of
\* its type as Value.
C4_InvalidIsZero ==
    /\ res.op = "String" /\ ~res.out.IsValid => res.out.Value = ""
    /\ res.op \in {"Int64", "Int", "Float64"} /\ ~res.out.IsValid => res.out.Value = 0
    /\ res.op = "Bool" /\ ~res.out.IsValid => res.out.Value = FALSE

IsNumber(j) == j.data.tag \in {"float64", "Number"}
\* the literal denotes an integer of the int64 range
Representable(lit) ==
    /\ lit.val % Unit = 0
    /\ lit.val >= MinInt64 * Unit
    /\ lit.val <= MaxInt64 * Unit
\* the literal is an optionally signed run of digits
PlainInteger(lit) == lit.syntax = "integer"
InFloat64Range(lit) == lit.val <= MaxFloat64 /\ lit.val >= 0 - MaxFloat64

\* what C5 says of every getter but Float64
C5_Common ==
    /\ res.op \in {"String", "Int64", "Int", "Float64", "Bool"} /\ Undefined(res.recv) =>
          ~res.out.IsValid
          /\ res.out.Value = CASE res.op = "String" -> ""
                                [] res.op = "Bool" -> FALSE
                                [] OTHER -> 0
    /\ res.op = "String" /\ res.recv.exists =>
          (res.out.IsValid <=> res.recv.data.tag = "string")
    /\ res.op = "Bool" /\ res.recv.exists =>
          (res.out.IsValid <=> res.recv.data.tag = "bool")
    /\ res.op = "Int64" /\ res.recv.exists =>
          /\ res.out.IsValid => IsNumber(res.recv)
          /\ res.recv.data.tag = "float64" => res.out.IsValid
          /\ res.recv.data.tag = "Number" =>
                /\ res.out.IsValid => Representable(res.recv.data.v)
                /\ res.out.IsValid <=>
                      (PlainInteger(res.recv.data.v) /\ Representable(res.recv.data.v))
    /\ res.op = "Int" =>
          res.out.IsValid = Int64(res.recv, res.arg).IsValid

\* C5 as stated: the getters never coerce; absent gives {zero, false};
\* String is valid iff the data is a string, Bool iff a boolean, Int64 and
\* Float64 iff a number (Int64 of a string-backed number only if it is
\* representable as a 64-bit integer), Int as Int64.
C5_NoCoercion ==
    /\ C5_Common
    /\ res.op = "Float64" /\ res.recv.exists =>
          (res.out.IsValid <=> IsNumber(res.recv))

\* C5 amended: Float64 of a string-backed number is valid iff the number
\* is within the range of float64; Int64 of a string-backed number is valid
\* iff its text is a plain integer literal within the 64-bit range.
C5_NoCoercionAmended ==
    /\ C5_Common
    /\ res.op = "Float64" /\ res.recv.exists =>
          /\ res.out.IsValid => IsNumber(res.recv)
          /\ res.recv.data.tag = "float64" => res.out.IsValid
          /\ res.recv.data.tag = "Number" =>
                (res.out.IsValid <=> InFloat64Range(res.recv.data.v))

\* Float64 of a present string-backed number beyond the range of float64
C5_Witness ==
    /\ res.op = "Float64"
    /\ res.recv.exists
    /\ res.recv.data.tag = "Number"
    /\ ~InFloat64Range(res.recv.data.v)
    /\ ~res.out.IsValid

\* C6: IterMap on an absent or non-map navigator makes no call and returns
\* 0; on a map of n entries it calls the visitor with distinct keys of the
\* map, each with an existing navigator over that key's value, stops right
\* after the first call that returns false, and returns the number of calls
\* made, which is n when the visitor always returns true.
C6_IterMap ==
    res.op = "IterMap" =>
        LET j == res.recv
            f == res.arg
            calls == res.out.calls
            n == Cardinality(DOMAIN TreeOf(j).v)
        IN  IF ~IsMapNav(j) THEN calls = <<>> /\ res.out.count = 0
            ELSE /\ \A x, y \in DOMAIN calls : x # y => calls[x].key # calls[y].key
                 /\ \A x \in DOMAIN calls :
                       /\ HasEntry(j, calls[x].key)
                       /\ calls[x].value.exists
                       /\ TreeOf(calls[x].value) = TreeOf(j).v[calls[x].key]
                       /\ ~f[calls[x].key] => x = Len(calls)
                 /\ Len(calls) < n => Len(calls) > 0 /\ ~f[calls[Len(calls)].key]
                 /\ res.out.count = Len(calls)
                 /\ (\A k \in DOMAIN TreeOf(j).v : f[k]) => res.out.count = n

\* a map of two entries whose visitor stopped the iteration at the first
C6_Witness ==
    /\ res.op = "IterMap"
    /\ IsMapNav(res.recv)
    /\ Cardinality(DOMAIN TreeOf(res.recv).v) = 2
    /\ res.out.count = 1
    /\ Len(res.out.calls) = 1

\* C7: NewJson returns an existing navigator and no error, or Json{} and an
\* error; malformed text, as string, []byte or io.Reader, and a value
\* json.Marshal rejects give the error outcome; every success gives a
\* navigator that is not Undefined, a top-level null included.
C7_NewJson ==
    res.op = "NewJson" =>
        LET src == res.arg
            js == res.out.js
        IN  /\ \/ (res.out.err = "nil" /\ js.exists)
                \/ (res.out.err # "nil" /\ js = JsonZero)
            /\ ~WellFormed(src.text) => res.out.err # "nil"
            /\ res.out.err = "nil" => ~Undefined(js) /\ TreeOf(js) = src.text.val

\* C8: I(i) is Json{} when the receiver is absent or not an array, when
\* i < 0 and when i >= the length; otherwise it is an existing navigator
\* over element i, also when that element is null.
C8_Index ==
    res.op = "I" =>
        LET j == res.recv
            i == res.arg
        IN  IF IsArrayNav(j) /\ i >= 0 /\ i < Len(TreeOf(j).v)
            THEN res.out.exists /\ TreeOf(res.out) = TreeOf(j).v[i + 1]
            ELSE res.out = JsonZero

\* I of a null element
C8_Witness ==
    /\ res.op = "I"
    /\ IsArrayNav(res.recv)
    /\ res.arg = Len(TreeOf(res.recv).v) - 1
    /\ res.out = MkJson(Nil, TRUE)

\* C9: Array() is valid iff the navigator exists and its data is an array;
\* Elements() is never nil: it is empty for an invalid view and otherwise
\* holds, in order, an existing navigator over each element, a null element
\* being Null() and not Undefined().
C9_ArrayElements ==
    /\ res.op = "Array" => (res.out.IsValid <=> IsArrayNav(res.recv))
    /\ res.op = "Elements" =>
          LET j == res.recv
              items == res.out.items
          IN  /\ ~res.out.nil
              /\ res.arg.IsValid <=> IsArrayNav(j)
              /\ IF ~IsArrayNav(j) THEN items = <<>>
                 ELSE /\ Len(items) = Len(TreeOf(j).v)
                      /\ \A x \in DOMAIN items :
                            /\ items[x].exists
                            /\ TreeOf(items[x]) = TreeOf(j).v[x]
                            /\ TreeOf(j).v[x] = Nil =>
                                  Null(items[x]) /\ ~Undefined(items[x])

\* the elements of an array with a null element
C9_Witness ==
    /\ res.op = "Elements"
    /\ IsArrayNav(res.recv)
    /\ \E x \in DOMAIN res.out.items : res.out.items[x] = MkJson(Nil, TRUE)

\* C10: a call changes nothing another navigator shows: while the caller
\* leaves c alone, c shows the same existence and the same tree, whatever
\* is called on p, re-decoding into p included; and the navigation and
\* extraction methods leave p and c as they were.
C10_Frame ==
    [][ /\ c' = c => Obs(c)' = Obs(c)
        /\ res'.op \in ReadOps =>
              /\ p' = p /\ Obs(p)' = Obs(p)
              /\ c' = c /\ Obs(c)' = Obs(c) ]_vars

\* c still refers into the document p held before p was decoded again
C10_Witness ==
    /\ res.op \in {"UnmarshalJSON", "Scan"}
    /\ res.out = "nil"
    /\ IsContainer(c.data)
    /\ IsContainer(p.data)
    /\ c.data.v.doc # p.data.v.doc
    /\ c.data.v.path # <<>>
    /\ IsJson(c)

\* C11: in every state, after any sequence of calls, failed UnmarshalJSON
\* and Scan of malformed bytes into a variable holding a document included,
\* an absent navigator (Undefined() true) holds no data: Raw() is nil and
\* the value is Json{}.
C11_AbsentHoldsNoData ==
    /\ \A j \in {p, c} \cup Returned :
          Undefined(j) => Raw(j) = Nil /\ j = JsonZero
    /\ res.op = "Raw" /\ Undefined(res.recv) => res.out = Nil

====
